---- MODULE Spec2Model ----
(***************************************************************************)
(* Water allocation display: the browser-side convergence engine and event *)
(* detector of frontend/script.js (the bag-button variant, lines 131-309). *)
(*                                                                         *)
(* Water points are IEEE doubles in the script.  They are modelled as      *)
(* fixed-point integers holding Scale units per water point; the product   *)
(* diff * DECAY_RATE is rounded down to the unit.                          *)
(*                                                                         *)
(* Time is counted in decay intervals: the decay callback runs once per    *)
(* DECAY_INTERVAL_MS, so every run of it ages the pending timeouts by one  *)
(* interval.                                                               *)
(*                                                                         *)
(* The sketch on the microcontroller (unnamed/part_000) is modelled next   *)
(* to the page: setup() with the calibration of the four channels in       *)
(* SpecSetup, loop() in SpecLoop.  Floats are the numbers Serial.print     *)
(* writes, in hundredths, plus the infinities and NaN; millis() is kept    *)
(* modulo 2^MillisBits.  HX711 is the load cell amplifier library the      *)
(* sketch includes: set_scale and set_offset store their argument,         *)
(* get_units(n) is (read_average(n) - OFFSET) / SCALE, tare() stores the   *)
(* average of 10 readings as OFFSET, and read() waits for is_ready().      *)
(*                                                                         *)
(* Config Sync is not part of the script under frontend/; SpecConfig       *)
(* follows its description in section 4.5 of the specification.            *)
(***************************************************************************)
EXTENDS Integers, Sequences, FiniteSets, TLC

\* ---------------------------------------------------------------- bounds
Scale == 200          \* fixed-point units per water point
MaxSample == 500      \* largest value a /data response carries
MaxActive == 1        \* buckets with a non-zero value in one /data response
MaxBuckets == 2       \* buckets that receive bags; the others stay idle
MaxPolls == 2         \* fetchData calls that pass the testMode check
MaxClicks == 1        \* bag-button clicks
MaxTicks == 4         \* runs of the decay callback
ScenarioDeposit == 30 \* the deposit of the one-deposit scenario, in points
ScenarioIdle == 2     \* idle samples that follow the deposit
MaxSyncs == 4         \* runs of Config Sync
MaxRemote == 2000     \* largest remote decay rate, in thousandths
MaxCustom == 1        \* channels whose calibration differs from the shipped
MaxNotReady == 1      \* channels not ready in a sample where some are
MaxLoops == 3         \* calls of loop()
MillisBits == 16      \* bits of the millisecond counter (32 in the build)
RawStep == 7050       \* raw counts are multiples of this

\* ------------------------------------------------------ program constants
SOUND_THRESHOLD == 5
SMALL_BAG_POINTS == 10
LARGE_BAG_POINTS == 25
STORY_DURATION == 6000
DECAY_RATE_NUM == 5           \* DECAY_RATE = 0.005 = 5 / 1000
DECAY_RATE_DEN == 1000
MIN_DECAY_STEP == 2
DECAY_INTERVAL_MS == 2000
MAX_WATER_POINTS == 200
StoryCount == 4               \* stories[key].length, the same for every key
NUM_CHANNELS == 4
AVERAGE_SAMPLES == 1
READ_INTERVAL_MS == 100
SHIPPED_FACTOR == 7050        \* calibrationFactor of every channel, 7050.0f
READY_WINDOW_MS == 500        \* millis() - start < 500
READY_POLL_MS == 10           \* delay(10) between readiness checks
TARE_TIMES == 10              \* tare() averages 10 readings
PRINT_DIGITS == 2             \* Serial.print(weight, 2)

NULL == -1                    \* stands for null: no index, no timeout id
NoStory == <<>>               \* the panel has no story text yet
NoDecay == <<>>               \* the last step was not the decay callback
NoRemote == <<>>              \* Config Sync has not run
NoLoop == <<>>                \* loop() has not been called
Keys == {"food", "ai", "crops", "animals"}
KeyOrder == <<"food", "ai", "crops", "animals">>
Sizes == {"small", "large"}
StoryIndices == 0 .. (StoryCount - 1)
StorySteps == STORY_DURATION \div DECAY_INTERVAL_MS

Max(a, b) == IF a >= b THEN a ELSE b
Min(a, b) == IF a <= b THEN a ELSE b

\* values a sample carries for one bucket, in water points
SampleValues ==
  {-1, 0, SOUND_THRESHOLD - 1, SOUND_THRESHOLD,
   MAX_WATER_POINTS - SOUND_THRESHOLD + 1, MaxSample}

\* the buckets whose scales and bag buttons are used
ActiveKeys == { KeyOrder[i] : i \in 1 .. Min(MaxBuckets, Len(KeyOrder)) }

\* the parsed JSON bodies of /data: a value per bucket, in units
Samples ==
  { d \in [Keys -> {v * Scale : v \in SampleValues}] :
      /\ \A k \in Keys \ ActiveKeys : d[k] = 0
      /\ Cardinality({k \in Keys : d[k] # 0}) <= MaxActive }

VARIABLES
  lastValues,      \* lastValues[key]: the target of the bucket
  displayValues,   \* displayValues[key]: the displayed value of the bucket
  testMode,        \* the manual-mode latch
  lastStoryIndex,  \* lastStoryIndex[key]: NULL or the last story shown
  storyTimeout,    \* NULL or the id of the last auto-hide timeout set
  visible,         \* storyArea carries the class 'visible'
  storyText,       \* NoStory or <<key, index>> of the story in the panel
  timers,          \* pending timeouts: records [id, age]
  inflight,        \* fetchData calls awaiting their response
  polls,           \* fetchData calls that issued a request
  clicks,          \* bag-button clicks handled
  ticks,           \* runs of the decay callback
  sinceStory,      \* decay intervals since the last showStory (history)
  calls,           \* the updateBar calls of the last step (history)
  decayed,         \* displayValues before the last step, if it was the
                   \* decay callback, else NoDecay (history)
  startValues,     \* displayValues when a handler last called updateBar
  startTick,       \* the value of ticks at that moment (history)
  fails,           \* fetchData calls that ended in a rejection (history)
  applied,         \* the poll whose response was applied last, 0 if none
  config,          \* the decay configuration kept by Config Sync
  syncs,           \* runs of Config Sync
  remote,          \* NoRemote or the outcome of the last config fetch
  channels,        \* channels[i]: calibrationFactor and tareOffset
  scale,           \* scale[i]: SCALE and OFFSET of the HX711 of channel i
  pc,              \* where the sketch is: "setup", "probe", "tare", "loop"
  chan,            \* the channel setup() is calibrating (i + 1)
  waited,          \* millis() - start in the readiness loop of the channel
  tareReads,       \* readings tare() has taken so far
  tareRaw,         \* the raw counts tare() reads
  dout,            \* the channel under calibration has data ready
  calLog,          \* how applyCalibration ended, per calibrated channel
  millis,          \* millis(), modulo MillisMod
  lastReadMillis,  \* lastReadMillis
  ledState,        \* ledState
  serialLines,     \* sample lines written to Serial
  loops,           \* calls of loop()
  sinceEmit,       \* milliseconds since lastReadMillis was set (history)
  lastLoop         \* NoLoop or what the last call of loop() did (history)

\* the state of the page script
pageVars ==
  <<lastValues, displayValues, testMode, lastStoryIndex, storyTimeout,
    visible, storyText, timers, inflight, polls, clicks, ticks,
    sinceStory, calls, decayed, startValues, startTick, fails,
    applied>>

\* the state the handlers of the page script never touch
configVars == <<config, syncs, remote>>

\* the state of the sketch on the microcontroller
sketchVars ==
  <<channels, scale, pc, chan, waited, tareReads, tareRaw, dout, calLog,
    millis, lastReadMillis, ledState, serialLines, loops, sinceEmit,
    lastLoop>>

outside == <<configVars, sketchVars>>

vars == <<pageVars, outside>>

\* ------------------------------------------------------------ showStory

\* variant: the first draw is kept, the re-draw loop is missing
StoryChoices_NoRedraw(last, n) == 0 .. (n - 1)

\* the index left in `index` by the draw and the re-draw loop
StoryChoices(last, n) ==
  IF last # NULL /\ n > 1 THEN (0 .. (n - 1)) \ {last} ELSE 0 .. (n - 1)

\* variant: the pending timeout is not cleared
ClearTimeout_Noop(tm, id) == tm

\* clearTimeout(id): a no-op for an id that is not pending
ClearTimeout(tm, id) == { t \in tm : t.id # id }

\* setTimeout returns an id that no pending timeout carries
FreshId(tm) ==
  CHOOSE i \in 1 .. (Cardinality(tm) + 1) :
    /\ \A t \in tm : t.id # i
    /\ \A j \in 1 .. (i - 1) : \E t \in tm : t.id = j

\* variant: the index is stored in displayValues instead of lastStoryIndex
ShowStory_WritesDisplay(s, key, draw) ==
  LET cleared == IF s.storyTimeout # NULL
                 THEN ClearTimeout(s.timers, s.storyTimeout)
                 ELSE s.timers
      id == FreshId(cleared)
  IN [s EXCEPT !.displayValues[key] = draw,
               !.storyText = <<key, draw>>,
               !.visible = TRUE,
               !.timers = cleared \cup {[id |-> id, age |-> 0]},
               !.storyTimeout = id,
               !.sinceStory = 0]

\* showStory(key) on the state record s, with `draw` the index drawn
ShowStory(s, key, draw) ==
  IF StoryCount = 0 THEN s
  ELSE
    LET cleared == IF s.storyTimeout # NULL
                   THEN ClearTimeout(s.timers, s.storyTimeout)
                   ELSE s.timers
        id == FreshId(cleared)
    IN [s EXCEPT !.lastStoryIndex[key] = draw,
                 !.storyText = <<key, draw>>,
                 !.visible = TRUE,
                 !.timers = cleared \cup {[id |-> id, age |-> 0]},
                 !.storyTimeout = id,
                 !.sinceStory = 0]

\* ------------------------------------------------------------ updateBar

\* variant: the rise is capped at MAX_WATER_POINTS
Rise_Capped(displayed, value) ==
  IF value > displayed THEN Min(value, MAX_WATER_POINTS * Scale)
                       ELSE displayed

\* lines 244-246: the displayed value after the rise check
Rise(displayed, value) == IF value > displayed THEN value ELSE displayed

\* variant: a change of at least the threshold in either direction fires
FiresEvent_AnyChange(value, previousTarget) ==
  \/ value - previousTarget >= SOUND_THRESHOLD * Scale
  \/ previousTarget - value >= SOUND_THRESHOLD * Scale

\* variant: the comparison with the threshold is strict
FiresEvent_Strict(value, previousTarget) ==
  value - previousTarget > SOUND_THRESHOLD * Scale

\* lines 249-251: the event test
FiresEvent(value, previousTarget) ==
  value - previousTarget >= SOUND_THRESHOLD * Scale

\* variant: options.targetValue is ignored (the slider variant's line 426)
NewTarget_NoOverride(value, hasTargetValue, targetValue) == Max(0, value)

\* variant: the target is stored without Math.max(0, .)
NewTarget_NoFloor(value, hasTargetValue, targetValue) ==
  IF hasTargetValue THEN targetValue ELSE value

\* lines 257-260: the target stored by the call
NewTarget(value, hasTargetValue, targetValue) ==
  Max(0, IF hasTargetValue THEN targetValue ELSE value)

\* updateBar(key, value, options) on the state record s
UpdateBar(s, key, value, hasTargetValue, targetValue, draw, src) ==
  IF key \notin Keys THEN s      \* no bar element: early return
  ELSE
    LET previousTarget == s.lastValues[key]
        fired == FiresEvent(value, previousTarget)
        s1 == [s EXCEPT !.displayValues[key] = Rise(@, value)]
        s2 == IF fired THEN ShowStory(s1, key, draw) ELSE s1
    IN [s2 EXCEPT
          !.lastValues[key] = NewTarget(value, hasTargetValue, targetValue),
          !.calls = @ \cup {[key |-> key, value |-> value,
                             hasTargetValue |-> hasTargetValue,
                             targetValue |-> targetValue,
                             prevTarget |-> previousTarget,
                             prevDisplayed |-> s.displayValues[key],
                             prevStory |-> s.lastStoryIndex[key],
                             prevText |-> s.storyText,
                             prevVisible |-> s.visible,
                             prevSince |-> s.sinceStory,
                             fired |-> fired, src |-> src]}]

\* the state the handlers work on, with an empty call history
Cur ==
  [lastValues |-> lastValues, displayValues |-> displayValues,
   lastStoryIndex |-> lastStoryIndex, storyTimeout |-> storyTimeout,
   visible |-> visible, storyText |-> storyText, timers |-> timers,
   sinceStory |-> sinceStory, calls |-> {}]

Store(s) ==
  /\ lastValues' = s.lastValues
  /\ displayValues' = s.displayValues
  /\ lastStoryIndex' = s.lastStoryIndex
  /\ storyTimeout' = s.storyTimeout
  /\ visible' = s.visible
  /\ storyText' = s.storyText
  /\ timers' = s.timers
  /\ sinceStory' = s.sinceStory
  /\ calls' = s.calls
  /\ decayed' = NoDecay
  /\ startValues' = s.displayValues
  /\ startTick' = ticks

\* every index drawn by a fired event is one the re-draw loop can leave
DrawsAllowed(s, draws) ==
  \A c \in s.calls :
    c.fired => draws[c.key] \in StoryChoices(c.prevStory, StoryCount)

\* ------------------------------------------------- sketch: channel data

ChannelIds == 1 .. NUM_CHANNELS

\* lines 16-22: the channel table as shipped
ShippedChannels ==
  [i \in ChannelIds |-> [calibrationFactor |-> SHIPPED_FACTOR, tareOffset |-> 0]]

\* line 17 asks for the calibration factors to be replaced and lines 8-9
\* allow a negative factor and a saved offset: the tables a build can hold
ChannelTables ==
  { t \in [ChannelIds -> [calibrationFactor : {SHIPPED_FACTOR, -SHIPPED_FACTOR, 0},
                          tareOffset : {0, RawStep}]] :
      Cardinality({i \in ChannelIds : t[i] # ShippedChannels[i]}) <= MaxCustom }

\* the sketch at power-on: HX711() leaves SCALE = 1 and OFFSET = 0, the
\* globals hold their initialisers (line 24, line 85)
PowerOn ==
  /\ scale = [i \in ChannelIds |-> [SCALE |-> 1, OFFSET |-> 0]]
  /\ pc = "setup"
  /\ chan = 1
  /\ waited = 0
  /\ tareReads = 0
  /\ tareRaw = 0
  /\ dout = FALSE
  /\ calLog = <<>>
  /\ millis = 0
  /\ lastReadMillis = 0
  /\ ledState = FALSE
  /\ serialLines = 0
  /\ loops = 0
  /\ sinceEmit = 0
  /\ lastLoop = NoLoop

\* ------------------------------------------------------------- handlers

\* the configuration the script is loaded with (lines 149-152)
ConfigInit ==
  config = [decayRateNum |-> DECAY_RATE_NUM,
            minDecayStep |-> MIN_DECAY_STEP * Scale,
            decayIntervalMs |-> DECAY_INTERVAL_MS,
            maxPoints |-> MAX_WATER_POINTS]

\* the state outside the page script, as the page script finds it
OutsideInit ==
  /\ ConfigInit
  /\ syncs = 0
  /\ remote = NoRemote
  /\ channels = ShippedChannels
  /\ PowerOn

\* lines 154-193: the state of the page once the script has loaded
PageInit ==
  /\ fails = 0
  /\ applied = 0
  /\ lastValues = [k \in Keys |-> 0]
  /\ displayValues = [k \in Keys |-> 0]
  /\ testMode = FALSE
  /\ lastStoryIndex = [k \in Keys |-> NULL]
  /\ storyTimeout = NULL
  /\ visible = FALSE
  /\ storyText = NoStory
  /\ timers = {}
  /\ inflight = {}
  /\ polls = 0
  /\ clicks = 0
  /\ ticks = 0
  /\ sinceStory = 0
  /\ calls = {}
  /\ decayed = NoDecay
  /\ startValues = [k \in Keys |-> 0]
  /\ startTick = 0

Init == OutsideInit /\ PageInit

\* variant: the new value is not capped at MAX_WATER_POINTS
BagClick_NoCap(bucket, size) ==
  /\ clicks < MaxClicks
  /\ clicks' = clicks + 1
  /\ testMode' = TRUE
  /\ LET increment == IF size = "large" THEN LARGE_BAG_POINTS
                                         ELSE SMALL_BAG_POINTS
         nextValue == displayValues[bucket] + increment * Scale
     IN \E draw \in StoryIndices :
          LET s == UpdateBar(Cur, bucket, nextValue, TRUE, 0, draw, "click")
          IN /\ DrawsAllowed(s, [k \in Keys |-> draw])
             /\ Store(s)
  /\ UNCHANGED <<inflight, polls, ticks, fails,
                 applied, outside>>

\* lines 201-207: the click handler of a bag button
BagClick(bucket, size) ==
  /\ clicks < MaxClicks
  /\ clicks' = clicks + 1
  /\ testMode' = TRUE
  /\ LET increment == IF size = "large" THEN LARGE_BAG_POINTS
                                         ELSE SMALL_BAG_POINTS
         current == displayValues[bucket]
         nextValue == Min(MAX_WATER_POINTS * Scale,
                          current + increment * Scale)
     IN \E draw \in StoryIndices :
          LET s == UpdateBar(Cur, bucket, nextValue, TRUE, 0, draw, "click")
          IN /\ DrawsAllowed(s, [k \in Keys |-> draw])
             /\ Store(s)
  /\ UNCHANGED <<inflight, polls, ticks, fails,
                 applied, outside>>

\* lines 299-301: fetchData up to the first await
FetchIssue ==
  /\ ~testMode
  /\ polls' = polls + 1
  /\ inflight' = inflight \cup {polls + 1}
  /\ calls' = {}
  /\ decayed' = NoDecay
  /\ UNCHANGED <<lastValues, displayValues, testMode, lastStoryIndex,
                 storyTimeout, visible, storyText, timers, clicks, ticks,
                 sinceStory, startValues, startTick, fails,
                 applied, outside>>

\* line 309: a run of fetchData started by the polling interval
FetchStart ==
  /\ polls < MaxPolls
  /\ FetchIssue

\* the for..in loop of lines 303-305 over the keys from position i on
RECURSIVE ApplyData(_, _, _, _)
ApplyData(s, data, draws, i) ==
  IF i > Len(KeyOrder) THEN s
  ELSE LET key == KeyOrder[i]
           draw == IF key \in DOMAIN draws THEN draws[key] ELSE 0
           next == CHOOSE t \in {UpdateBar(s, key, data[key], FALSE, 0,
                                            draw, "poll")} : TRUE
       IN ApplyData(next, data, draws, i + 1)

\* lines 302-305: the response of request id arrives and parses to data
FetchResponse(id, data) ==
  /\ id \in inflight
  /\ inflight' = inflight \ {id}
  /\ \E draws \in [{k \in Keys : FiresEvent(data[k], lastValues[k])}
                     -> StoryIndices] :
       \E s \in {ApplyData(Cur, data, draws, 1)} :
          /\ DrawsAllowed(s, draws)
          /\ Store(s)
  /\ applied' = id
  /\ UNCHANGED <<testMode, polls, clicks, ticks, fails, outside>>

\* variant: a failed fetch is treated as a sample of zeros
FetchFail_ZeroTargets(id) ==
  /\ id \in inflight
  /\ inflight' = inflight \ {id}
  /\ fails' = fails + 1
  /\ lastValues' = [k \in Keys |-> 0]
  /\ calls' = {}
  /\ decayed' = NoDecay
  /\ UNCHANGED <<displayValues, testMode, lastStoryIndex,
                 storyTimeout, visible, storyText, timers, polls, clicks,
                 ticks, sinceStory, startValues, startTick, applied,
                 outside>>

\* lines 301-302: fetch rejects or the body does not parse; fetchData ends
FetchFail(id) ==
  /\ id \in inflight
  /\ inflight' = inflight \ {id}
  /\ fails' = fails + 1
  /\ calls' = {}
  /\ decayed' = NoDecay
  /\ UNCHANGED <<lastValues, displayValues, testMode, lastStoryIndex,
                 storyTimeout, visible, storyText, timers, polls, clicks,
                 ticks, sinceStory, startValues, startTick, applied,
                 outside>>

\* variant: no MIN_DECAY_STEP floor under the proportional amount
DecayAmount_NoFloor(diff) == (diff * DECAY_RATE_NUM) \div DECAY_RATE_DEN

\* line 269: the amount one decay step removes
DecayAmount(diff) ==
  Max((diff * DECAY_RATE_NUM) \div DECAY_RATE_DEN, MIN_DECAY_STEP * Scale)

\* variant: the step is not clamped at the target
DecayValue_NoClamp(target, current) ==
  IF current > target
  THEN current - DecayAmount(current - target)
  ELSE current

\* lines 265-272: the displayed value of one bucket after the callback
DecayValue(target, current) ==
  IF current > target
  THEN Max(target, current - DecayAmount(current - target))
  ELSE current

\* lines 263-274: one run of the decay callback, one interval later
TickBody ==
  /\ \A t \in timers : t.age < StorySteps
  /\ displayValues' =
       [k \in Keys |-> DecayValue(lastValues[k], displayValues[k])]
  /\ timers' = { [id |-> t.id, age |-> t.age + 1] : t \in timers }
  /\ sinceStory' = IF timers = {} THEN sinceStory ELSE sinceStory + 1
  /\ ticks' = ticks + 1
  /\ calls' = {}
  /\ decayed' = displayValues
  /\ UNCHANGED <<lastValues, testMode, lastStoryIndex, storyTimeout,
                 visible, storyText, inflight, polls, clicks, startValues,
                 startTick, fails,
                 applied, outside>>

DecayTick ==
  /\ ticks < MaxTicks
  /\ TickBody

\* lines 294-296: an auto-hide timeout expires
HideStory ==
  /\ \E t \in timers :
       /\ t.age >= StorySteps
       /\ timers' = timers \ {t}
  /\ visible' = FALSE
  /\ calls' = {}
  /\ decayed' = NoDecay
  /\ UNCHANGED <<lastValues, displayValues, testMode, lastStoryIndex,
                 storyTimeout, storyText, inflight, polls, clicks, ticks,
                 sinceStory, startValues, startTick, fails,
                 applied, outside>>

Next ==
  \/ \E b \in ActiveKeys, z \in Sizes : BagClick(b, z)
  \/ FetchStart
  \/ \E id \in inflight, d \in Samples : FetchResponse(id, d)
  \/ \E id \in inflight : FetchFail(id)
  \/ DecayTick
  \/ HideStory

Spec == Init /\ [][Next]_vars

\* ------------------------------------------- decay with no further input

\* gaps displayed - target a bucket is left with in SpecDecay, in units
DecayGaps ==
  {0, 1, MIN_DECAY_STEP * Scale - 1, SOUND_THRESHOLD * Scale,
   MaxSample * Scale}

DecayTargets == {0, SOUND_THRESHOLD * Scale, MAX_WATER_POINTS * Scale}

\* the states a bucket is in after a sample d followed by a sample t <= d
InitDecay ==
  /\ lastValues \in
       { f \in [Keys -> DecayTargets] : \A k \in Keys \ ActiveKeys : f[k] = 0 }
  /\ \E g \in { f \in [Keys -> DecayGaps] :
                   \A k \in Keys \ ActiveKeys : f[k] = 0 } :
       displayValues = [k \in Keys |-> lastValues[k] + g[k]]
  /\ testMode = FALSE
  /\ lastStoryIndex = [k \in Keys |-> NULL]
  /\ storyTimeout = NULL
  /\ visible = FALSE
  /\ storyText = NoStory
  /\ timers = {}
  /\ inflight = {}
  /\ polls = 0
  /\ clicks = 0
  /\ ticks = 0
  /\ sinceStory = 0
  /\ calls = {}
  /\ decayed = NoDecay
  /\ startValues = displayValues
  /\ startTick = 0
  /\ fails = 0
  /\ applied = 0
  /\ OutsideInit

\* a run of the decay callback that finds a bucket above its target
DecayRun ==
  /\ \E k \in Keys : displayValues[k] > lastValues[k]
  /\ TickBody

SpecDecay == InitDecay /\ [][DecayRun]_vars /\ WF_vars(DecayRun)

\* ----------------------------------- one deposit followed by idle samples

\* the body of the poll numbered id: the deposit, then idle samples
ScenarioData(id) ==
  [k \in Keys |-> IF id = 1 /\ k = "food" THEN ScenarioDeposit * Scale ELSE 0]

\* the polling interval starts fetchData once the previous run has ended
ScenarioPoll ==
  /\ inflight = {}
  /\ polls < 1 + ScenarioIdle
  /\ FetchIssue

ScenarioResponse == \E id \in inflight : FetchResponse(id, ScenarioData(id))

\* the decay callback, while it has a bucket to lower or a timeout to age
ScenarioTick ==
  /\ \/ \E k \in Keys : displayValues[k] > lastValues[k]
     \/ timers # {}
  /\ TickBody

ScenarioNext ==
  \/ ScenarioPoll
  \/ ScenarioResponse
  \/ ScenarioTick
  \/ HideStory

\* the browser runs a callback that is due: every callback of the scenario
\* can run only a bounded number of times, so this is all the fairness the
\* scenario needs
SpecScenario == Init /\ [][ScenarioNext]_vars /\ WF_vars(ScenarioNext)

\* ------------------------------------------------------------ Config Sync

\* the outcomes of a config fetch: no response, a payload that is not a
\* number, or a number (a decay rate in thousandths)
RemoteOutcomes ==
  {[kind |-> "failure", num |-> 0], [kind |-> "text", num |-> 0]}
    \cup { [kind |-> "number", num |-> n] :
             n \in {-1, 0, DECAY_RATE_NUM, DECAY_RATE_DEN, MaxRemote} }

\* the fractions of decayRate * maxPoints a minDecayStep is recomputed as,
\* in percent
StepPercents == {1, 10, 50}

\* the payload parses as a non-negative number
ParsesNonNegative(r) == r.kind = "number" /\ r.num >= 0

\* minDecayStep recomputed from the rate, in units, never below zero
RecomputedStep(rateNum, maxPoints, pct) ==
  Max(0, (((rateNum * maxPoints * pct) \div 100) * Scale) \div DECAY_RATE_DEN)

\* one run of Config Sync with fetch outcome r
ConfigSync(r, pct) ==
  /\ syncs < MaxSyncs
  /\ syncs' = syncs + 1
  /\ remote' = r
  /\ config' =
       IF ParsesNonNegative(r)
       THEN [config EXCEPT
               !.decayRateNum = r.num,
               !.minDecayStep = RecomputedStep(r.num, config.maxPoints, pct)]
       ELSE config
  /\ UNCHANGED <<pageVars, sketchVars>>

ConfigNext == \E r \in RemoteOutcomes, pct \in StepPercents : ConfigSync(r, pct)

SpecConfig == Init /\ [][ConfigNext]_vars

\* -------------------------------------------------------- sketch: setup()

\* the raw counts tare() may read from the empty bucket
TareCounts == {0, RawStep}

\* applyCalibration has returned with outcome `how`: the for loop of lines
\* 69-73 moves to the next channel, or setup() ends (line 75) and the core
\* starts calling loop(); setup takes `boot` milliseconds in all
CalibrationEnds(how, boot) ==
  /\ calLog' = Append(calLog, how)
  /\ waited' = 0
  /\ tareReads' = 0
  /\ IF chan < NUM_CHANNELS
     THEN /\ chan' = chan + 1
          /\ pc' = "setup"
          /\ UNCHANGED <<millis, sinceEmit>>
     ELSE /\ chan' = chan
          /\ pc' = "loop"
          /\ millis' = boot
          /\ sinceEmit' = boot

\* the time setup() may have taken, modulo MillisMod
BootTimes == {READ_INTERVAL_MS - 1, 2 * READ_INTERVAL_MS}

\* line 28: HX711::set_scale stores the factor
SetScale(s, factor) == [s EXCEPT !.SCALE = factor]

\* lines 27-35: begin, set_scale, then the stored offset or the settling delay
CalibrateBegin ==
  /\ pc = "setup"
  /\ LET channel == channels[chan]
         scaled == SetScale(scale[chan], channel.calibrationFactor)
     IN IF channel.tareOffset # 0
        THEN /\ scale' = [scale EXCEPT
                            ![chan] = [scaled EXCEPT !.OFFSET = channel.tareOffset]]
             /\ \E boot \in BootTimes : CalibrationEnds("stored", boot)
             /\ UNCHANGED <<dout, tareRaw>>
        ELSE /\ scale' = [scale EXCEPT ![chan] = scaled]
             /\ pc' = "probe"
             /\ waited' = 0
             /\ dout' \in BOOLEAN
             /\ UNCHANGED <<chan, tareReads, tareRaw, calLog, millis, sinceEmit>>
  /\ UNCHANGED <<channels, lastReadMillis, ledState, serialLines, loops,
                 lastLoop, pageVars, configVars>>

\* lines 40-43: the window is open and is_ready() answers true
ProbeReady ==
  /\ pc = "probe"
  /\ waited < READY_WINDOW_MS
  /\ dout
  /\ pc' = "tare"
  /\ tareReads' = 0
  /\ UNCHANGED <<channels, scale, chan, waited, tareRaw, dout, calLog, millis,
                 lastReadMillis, ledState, serialLines, loops, sinceEmit,
                 lastLoop, pageVars, configVars>>

\* lines 40-45: the window is open, is_ready() answers false, delay(10)
ProbeWait ==
  /\ pc = "probe"
  /\ waited < READY_WINDOW_MS
  /\ ~dout
  /\ waited' = waited + READY_POLL_MS
  /\ UNCHANGED <<channels, scale, pc, chan, tareReads, tareRaw, dout, calLog,
                 millis, lastReadMillis, ledState, serialLines, loops,
                 sinceEmit, lastLoop, pageVars, configVars>>

\* lines 40, 51-52: the window has closed with ready still false
ProbeTimeout ==
  /\ pc = "probe"
  /\ waited >= READY_WINDOW_MS
  /\ \E boot \in BootTimes : CalibrationEnds("timeout", boot)
  /\ UNCHANGED <<channels, scale, tareRaw, dout, lastReadMillis, ledState,
                 serialLines, loops, lastLoop, pageVars, configVars>>

\* line 49: HX711::tare() is set_offset(read_average(10)); every read()
\* first waits, with no time limit, until is_ready() answers true, and the
\* chip raises DOUT again once the reading is shifted out
TareRead ==
  /\ pc = "tare"
  /\ dout
  /\ dout' = FALSE
  /\ tareRaw' \in (IF tareReads = 0 THEN TareCounts ELSE {tareRaw})
  /\ IF tareReads + 1 < TARE_TIMES
     THEN /\ tareReads' = tareReads + 1
          /\ UNCHANGED <<scale, pc, chan, waited, calLog, millis, sinceEmit>>
     ELSE /\ scale' = [scale EXCEPT ![chan].OFFSET = tareRaw']
          /\ \E boot \in BootTimes : CalibrationEnds("tared", boot)
  /\ UNCHANGED <<channels, lastReadMillis, ledState, serialLines, loops,
                 lastLoop, pageVars, configVars>>

\* the load cell amplifier of the channel under calibration finishes a
\* conversion, or stops having data ready
SensorFlip ==
  /\ pc \in {"probe", "tare"}
  /\ dout' = ~dout
  /\ UNCHANGED <<channels, scale, pc, chan, waited, tareReads, tareRaw, calLog,
                 millis, lastReadMillis, ledState, serialLines, loops,
                 sinceEmit, lastLoop, pageVars, configVars>>

\* the steps the microcontroller takes by itself
SetupStep ==
  \/ CalibrateBegin
  \/ ProbeReady
  \/ ProbeWait
  \/ ProbeTimeout
  \/ TareRead

SetupNext ==
  \/ SetupStep
  \/ SensorFlip

\* power-on with any channel table
SetupInit ==
  /\ PageInit
  /\ ConfigInit
  /\ syncs = 0
  /\ remote = NoRemote
  /\ channels \in ChannelTables
  /\ PowerOn

\* the processor keeps executing setup() and takes a step that is possible
\* again and again; the sensors owe nothing
SpecSetup == SetupInit /\ [][SetupNext]_vars /\ SF_vars(SetupStep)

\* --------------------------------------------------------- sketch: loop()

\* unsigned long arithmetic, at the width of the model
MillisMod == 2 ^ MillisBits

\* variant: the difference is taken in signed arithmetic, without wrap-around
Elapsed_Signed(now, last) == now - last

\* line 80: now - lastReadMillis in unsigned arithmetic
Elapsed(now, last) == (now - last) % MillisMod

Abs(n) == IF n < 0 THEN -n ELSE n

\* a float that is a number, in units of 10^-PRINT_DIGITS as Serial.print
\* writes it, or an infinity (v is its sign), or NaN
Num(v) == [kind |-> "num", v |-> v]
Inf(sign) == [kind |-> "inf", v |-> sign]
NaN == [kind |-> "nan", v |-> 0]

\* n / f rounded to PRINT_DIGITS decimals, half away from zero
Quotient(n, f) ==
  LET m == (2 * Abs(n) * (10 ^ PRINT_DIGITS) + Abs(f)) \div (2 * Abs(f))
  IN IF (n < 0) = (f < 0) THEN m ELSE -m

\* HX711::get_units(times): (read_average(times) - OFFSET) / SCALE in float
\* arithmetic, every reading of the average being raw
GetUnits(s, raw, times) ==
  LET n == (raw * times) \div times - s.OFFSET
  IN IF s.SCALE # 0 THEN Num(Quotient(n, s.SCALE))
     ELSE IF n = 0 THEN NaN
     ELSE Inf(IF n > 0 THEN 1 ELSE -1)

\* variant: the channel is read without asking is_ready(); a channel that is
\* not ready delivers its previous conversion
ReadWeight_Unguarded(s, ready, raw) ==
  [weight |-> GetUnits(s, raw, AVERAGE_SAMPLES), readyChecks |-> 0]

\* lines 57-62: readWeight, and how often it asked is_ready()
ReadWeight(s, ready, raw) ==
  [weight |-> IF ~ready THEN NaN ELSE GetUnits(s, raw, AVERAGE_SAMPLES),
   readyChecks |-> 1]

\* lines 91-93: NaN is replaced by 0.0f
Coerce(weight) == IF weight.kind = "nan" THEN Num(0) ELSE weight

\* variant: the for loop starts at channel 1, channel 0 is left out
PollChannels_SkipFirst(out, i, ready, raw) ==
  [sample |-> <<Coerce(ReadWeight(scale[2], 2 \in ready, raw[2]).weight),
                Coerce(ReadWeight(scale[3], 3 \in ready, raw[3]).weight),
                Coerce(ReadWeight(scale[4], 4 \in ready, raw[4]).weight)>>,
   polled |-> <<2, 3, 4>>,
   readyChecks |-> <<1, 1, 1>>]

\* lines 89-99: the for loop from channel i on; out collects the readings
\* printed, the channels polled and the is_ready() calls made for each
RECURSIVE PollChannels(_, _, _, _)
PollChannels(out, i, ready, raw) ==
  IF i > NUM_CHANNELS THEN out
  ELSE LET r == ReadWeight(scale[i], i \in ready, raw[i])
           next == [sample |-> Append(out.sample, Coerce(r.weight)),
                    polled |-> Append(out.polled, i),
                    readyChecks |-> Append(out.readyChecks, r.readyChecks)]
       IN PollChannels(next, i + 1, ready, raw)

NoOutput == [sample |-> <<>>, polled |-> <<>>, readyChecks |-> <<>>]

\* the time between two calls of loop(), in milliseconds
LoopGaps ==
  {1, READ_INTERVAL_MS - 1, READ_INTERVAL_MS,
   READ_INTERVAL_MS + READ_INTERVAL_MS \div 2, MillisMod - 2 * READ_INTERVAL_MS}

\* the channels that have data ready during one call of loop()
ReadySets ==
  { S \in SUBSET ChannelIds :
      S = {} \/ Cardinality(ChannelIds \ S) <= MaxNotReady }

\* the raw counts the channels deliver during one call of loop()
RawVectors == { [i \in ChannelIds |-> c * i * RawStep] : c \in {0, 1} }

\* variant: the gate lets the call through one millisecond early
Gated_Early(now) == Elapsed(now, lastReadMillis) < READ_INTERVAL_MS - 1

\* line 80: the call returns without doing anything
Gated(now) == Elapsed(now, lastReadMillis) < READ_INTERVAL_MS

\* lines 78-102: one call of loop(), dt milliseconds after the previous one
LoopCall(dt, ready, raw) ==
  /\ pc = "loop"
  /\ loops < MaxLoops
  /\ loops' = loops + 1
  /\ LET now == (millis + dt) % MillisMod
         out == IF Gated(now) THEN NoOutput
                ELSE PollChannels(NoOutput, 1, ready, raw)
     IN /\ millis' = now
        /\ IF Gated(now)
           THEN /\ sinceEmit' = sinceEmit + dt
                /\ UNCHANGED <<lastReadMillis, ledState, serialLines>>
           ELSE /\ sinceEmit' = 0
                /\ lastReadMillis' = now
                /\ ledState' = ~ledState
                /\ serialLines' = serialLines + 1
        /\ lastLoop' = [now |-> now,
                        elapsed |-> sinceEmit + dt,
                        emitted |-> ~Gated(now),
                        sample |-> out.sample,
                        polled |-> out.polled,
                        readyChecks |-> out.readyChecks,
                        ledWrites |-> IF Gated(now) THEN 0 ELSE 1,
                        ready |-> ready,
                        raw |-> raw,
                        prevLast |-> lastReadMillis,
                        prevLed |-> ledState,
                        prevLines |-> serialLines]
  /\ UNCHANGED <<channels, scale, pc, chan, waited, tareReads, tareRaw, dout,
                 calLog, pageVars, configVars>>

\* a call that returns at line 81 reads no channel: one choice of the
\* channels' state stands for all
LoopNext ==
  \E dt \in LoopGaps :
    IF Gated((millis + dt) % MillisMod)
    THEN LoopCall(dt, ChannelIds, [i \in ChannelIds |-> 0])
    ELSE \E ready \in ReadySets, raw \in RawVectors : LoopCall(dt, ready, raw)

\* what setup() leaves in channel i: the factor, and the stored offset, or
\* the offset of a live tare, or 0 after a timeout
Calibrated(i, how) ==
  /\ scale[i].SCALE = channels[i].calibrationFactor
  /\ how = "stored" => /\ channels[i].tareOffset # 0
                       /\ scale[i].OFFSET = channels[i].tareOffset
  /\ how = "tared" => /\ channels[i].tareOffset = 0
                      /\ scale[i].OFFSET \in TareCounts
  /\ how = "timeout" => /\ channels[i].tareOffset = 0
                        /\ scale[i].OFFSET = 0

\* the states in which setup() hands over to loop()
LoopInit ==
  /\ PageInit
  /\ ConfigInit
  /\ syncs = 0
  /\ remote = NoRemote
  /\ channels \in ChannelTables
  /\ scale \in [ChannelIds -> [SCALE : {SHIPPED_FACTOR, -SHIPPED_FACTOR, 0},
                               OFFSET : TareCounts]]
  /\ calLog = [i \in ChannelIds |->
                 IF channels[i].tareOffset # 0 THEN "stored"
                 ELSE IF scale[i].OFFSET # 0 THEN "tared" ELSE "timeout"]
  /\ \A i \in ChannelIds : Calibrated(i, calLog[i])
  /\ Cardinality({i \in ChannelIds :
                    scale[i] # [SCALE |-> SHIPPED_FACTOR, OFFSET |-> 0]})
       <= MaxCustom
  /\ pc = "loop"
  /\ chan = NUM_CHANNELS
  /\ waited = 0
  /\ tareReads = 0
  /\ tareRaw = 0
  /\ dout = FALSE
  /\ millis \in BootTimes
  /\ sinceEmit = millis
  /\ lastReadMillis = 0
  /\ ledState = FALSE
  /\ serialLines = 0
  /\ loops = 0
  /\ lastLoop = NoLoop

SpecLoop == LoopInit /\ [][LoopNext]_vars

\* ---------------------------------------------------------------- claims

\* C1: one run of the decay callback leaves every bucket that was above its
\* target at max(target, displayed - max((displayed - target) * DECAY_RATE,
\* MIN_DECAY_STEP)), which is below the old displayed value and not below
\* the target; a bucket at or below its target keeps its displayed value.
C1_DecayTickNoOvershoot ==
  DOMAIN decayed # {} =>
    \A k \in Keys :
      LET d == decayed[k]
          t == lastValues[k]
          step == Max(((d - t) * DECAY_RATE_NUM) \div DECAY_RATE_DEN,
                      MIN_DECAY_STEP * Scale)
      IN IF d > t
         THEN /\ t <= displayValues[k]
              /\ displayValues[k] < d
              /\ displayValues[k] = Max(t, d - step)
         ELSE displayValues[k] = d

\* a decay run found a bucket less than MIN_DECAY_STEP above a positive
\* target and left it exactly at the target
C1_Witness ==
  /\ DOMAIN decayed # {}
  /\ \E k \in Keys :
       /\ lastValues[k] > 0
       /\ decayed[k] > lastValues[k]
       /\ decayed[k] - lastValues[k] < MIN_DECAY_STEP * Scale
       /\ displayValues[k] = lastValues[k]

\* C2: with no updateBar call, every decay run strictly lowers each bucket
\* that is above its target without passing the target, a bucket still above
\* its target after n runs started more than n * MIN_DECAY_STEP above it, and
\* every bucket reaches its target and stays there.
C2_Convergence ==
  /\ [](\A k \in Keys :
          displayValues[k] > lastValues[k] =>
            (ticks - startTick) * MIN_DECAY_STEP * Scale
              < startValues[k] - lastValues[k])
  /\ [][\A k \in Keys :
          (ticks' = ticks + 1 /\ displayValues[k] > lastValues[k]) =>
            /\ displayValues'[k] < displayValues[k]
            /\ displayValues'[k] >= lastValues[k]]_vars
  /\ <>[](\A k \in Keys : displayValues[k] = lastValues[k])

\* a bucket that started MaxSample above its target has reached it, after
\* runs that removed the proportional amount and runs that removed the floor
C2_Witness ==
  /\ ticks > 1
  /\ \E k \in Keys :
       /\ startValues[k] - lastValues[k] = MaxSample * Scale
       /\ displayValues[k] = lastValues[k]

\* C3: an updateBar call with a value above the displayed value leaves the
\* displayed value at exactly that value; any other call leaves it unchanged.
C3_RiseIsInstant ==
  \A c \in calls :
    displayValues[c.key] =
      IF c.value > c.prevDisplayed THEN c.value ELSE c.prevDisplayed

\* a call raised a bucket that was already above zero to a value above
\* MAX_WATER_POINTS
C3_Witness ==
  \E c \in calls :
    /\ c.prevDisplayed > 0
    /\ c.value > c.prevDisplayed
    /\ c.value > MAX_WATER_POINTS * Scale
    /\ displayValues[c.key] = c.value

\* C4: after an updateBar call the target is max(0, options.targetValue) if
\* the option is present and max(0, value) otherwise; after a bag click the
\* target is 0.
C4_TargetAfterUpdate ==
  \A c \in calls :
    /\ lastValues[c.key] =
         IF c.hasTargetValue
         THEN (IF c.targetValue > 0 THEN c.targetValue ELSE 0)
         ELSE (IF c.value > 0 THEN c.value ELSE 0)
    /\ c.src = "click" => lastValues[c.key] = 0

\* a bag click on a bucket whose target was positive left the target at 0
\* although the value of the call was positive
C4_Witness ==
  \E c \in calls :
    /\ c.src = "click"
    /\ c.prevTarget > 0
    /\ c.value > 0
    /\ lastValues[c.key] = 0

\* C5: target and displayed value of every bucket stay within
\* [0, MAX_WATER_POINTS], whatever values the polled samples carry.
C5_SamplesClamped ==
  \A k \in Keys :
    /\ 0 <= lastValues[k] /\ lastValues[k] <= MAX_WATER_POINTS * Scale
    /\ 0 <= displayValues[k] /\ displayValues[k] <= MAX_WATER_POINTS * Scale

\* C6: in every state every bucket has displayed >= target and
\* displayed >= 0.
C6_DisplayedAtLeastTarget ==
  \A k \in Keys :
    /\ displayValues[k] >= lastValues[k]
    /\ displayValues[k] >= 0

\* a negative sample value was applied to a bucket after a bag click and a
\* decay run
C6_Witness ==
  /\ clicks > 0
  /\ ticks > 0
  /\ \E c \in calls : c.src = "poll" /\ c.value < 0

\* C7: once the test-mode latch is set, no polled sample is applied to a
\* bucket.
C7_NoPollAfterLatch ==
  testMode => \A c \in calls : c.src # "poll"

\* C8: an updateBar call fires the bucket event exactly when the value minus
\* the target before the call is at least SOUND_THRESHOLD.
C8_ThresholdBoundary ==
  \A c \in calls :
    /\ c.fired <=> (c.value - c.prevTarget >= SOUND_THRESHOLD * Scale)
    /\ c.fired => (visible /\ sinceStory = 0 /\ storyText # NoStory)

\* a call whose value was exactly SOUND_THRESHOLD above the target fired the
\* event, although the value was below the displayed value
C8_Witness ==
  \E c \in calls :
    /\ c.value - c.prevTarget = SOUND_THRESHOLD * Scale
    /\ c.value < c.prevDisplayed
    /\ c.fired

\* C9: with at least two stories, the index stored by a showStory call differs
\* from the index the bucket had stored before, whatever was shown for
\* other buckets in between.
C9_NoImmediateRepeat ==
  StoryCount >= 2 =>
    \A c \in calls :
      (c.fired /\ c.prevStory # NULL) => lastStoryIndex[c.key] # c.prevStory

\* a bucket's second story was selected while the panel showed a story of
\* another bucket
C9_Witness ==
  \E c \in calls :
    /\ c.fired
    /\ c.prevStory # NULL
    /\ c.prevText # NoStory
    /\ c.prevText[1] # c.key
    /\ Cardinality({x \in calls : x.fired}) = 1

\* C10: the only auto-hide timeout that can be pending is the one set by the
\* most recent showStory, and the panel is hidden only STORY_DURATION after
\* the most recent showStory.
C10_SingleHideTimer ==
  /\ [](/\ Cardinality(timers) <= 1
        /\ \A t \in timers : t.id = storyTimeout /\ t.age = sinceStory)
  /\ [][(visible /\ ~visible') => sinceStory = StorySteps]_vars

\* an event fired while the panel was visible and an earlier timeout had
\* been pending for a while; one timeout is pending afterwards
C10_Witness ==
  /\ Cardinality(timers) = 1
  /\ \E c \in calls :
       /\ c.fired
       /\ c.prevVisible
       /\ c.prevSince > 0
       /\ c.prevSince < StorySteps

\* C11: a step in which an event fires leaves the displayed value and the
\* target of every bucket as the updateBar calls of the step leave them
\* without the event: a bucket that is called with value v has displayed
\* max(displayed, v) and the target of the call, every other bucket keeps
\* both values.
C11_EventsArePure ==
  [][(\E c \in calls' : c.fired) =>
       \A k \in Keys :
         IF \E x \in calls' : x.key = k
         THEN \A x \in calls' :
                x.key = k =>
                  /\ displayValues'[k] =
                       (IF x.value > displayValues[k] THEN x.value
                                                      ELSE displayValues[k])
                  /\ lastValues'[k] =
                       (IF x.hasTargetValue
                        THEN (IF x.targetValue > 0 THEN x.targetValue ELSE 0)
                        ELSE (IF x.value > 0 THEN x.value ELSE 0))
         ELSE /\ displayValues'[k] = displayValues[k]
              /\ lastValues'[k] = lastValues[k]]_vars

\* a bag click fired an event while another bucket had a positive target
\* and a positive displayed value
C11_Witness ==
  \E c \in calls :
    /\ c.fired
    /\ c.src = "click"
    /\ \E k \in Keys \ {c.key} : lastValues[k] > 0 /\ displayValues[k] > 0

C13_DepositThenIdle ==
  /\ [](\A c \in calls :
          (c.key = "food" /\ c.value = ScenarioDeposit * Scale) =>
             /\ c.fired
             /\ Cardinality({x \in calls : x.fired}) = 1
             /\ displayValues["food"] = ScenarioDeposit * Scale)
  /\ [](\A c \in calls :
          c.value = 0 => ~c.fired /\ lastValues[c.key] = 0)
  /\ [][(\E c \in calls' : c.fired) => lastStoryIndex["food"] = NULL]_vars
  /\ [][(ticks' = ticks + 1 /\ displayValues["food"] > lastValues["food"]) =>
          displayValues'["food"] < displayValues["food"]]_vars
  /\ <>[](displayValues["food"] = 0 /\ lastValues["food"] = 0)

\* the deposit fired its event, the idle samples were applied and the decay
\* callback has brought food back to 0
C13_Witness ==
  /\ lastStoryIndex["food"] # NULL
  /\ polls = 1 + ScenarioIdle
  /\ inflight = {}
  /\ ticks > 0
  /\ displayValues["food"] = 0
  /\ lastValues["food"] = 0

\* C14: a run of Config Sync whose fetch fails or whose payload is not a
\* non-negative number leaves the configuration unchanged, and in every
\* reachable state decayRate is in [0, 1], minDecayStep >= 0,
\* decayIntervalMs > 0 and maxPoints > 0.
C14_ConfigStaysValid ==
  /\ [][(syncs' = syncs + 1 /\ ~ParsesNonNegative(remote')) =>
          config' = config]_vars
  /\ [](/\ config.decayRateNum >= 0
        /\ config.decayRateNum <= DECAY_RATE_DEN
        /\ config.minDecayStep >= 0
        /\ config.decayIntervalMs > 0
        /\ config.maxPoints > 0)

\* C19: calibration at boot always ends: a channel with a stored tareOffset
\* gets that offset without a readiness wait and without a live tare; any
\* other channel is waited for at most READY_WINDOW_MS, is tared only if it
\* became ready within the window, and keeps OFFSET = 0 on a timeout; and
\* whatever the channels' readiness does, setup() returns and loop() starts.
C19_CalibrationTerminates ==
  /\ [](\A i \in 1 .. Len(calLog) :
          /\ (channels[i].tareOffset # 0) <=> (calLog[i] = "stored")
          /\ calLog[i] = "stored" => scale[i].OFFSET = channels[i].tareOffset
          /\ calLog[i] = "timeout" => scale[i].OFFSET = 0)
  /\ [](pc = "probe" => waited <= READY_WINDOW_MS)
  /\ [](pc = "tare" => waited < READY_WINDOW_MS)
  /\ <>(pc = "loop")

\* C20: no channel ever has a calibration factor of zero applied, so no
\* reachable state has an HX711 converting with SCALE = 0.
C20_ZeroFactorNeverApplied == \A i \in ChannelIds : scale[i].SCALE # 0

\* C15: a call of loop() made less than READ_INTERVAL_MS after the last
\* emitting call changes neither lastReadMillis nor the LED nor the serial
\* output; a call that emits comes at least READ_INTERVAL_MS after the
\* previous emitting call, writes exactly one sample however long the gap
\* was, and restarts the interval at the time of the call.
C15_LoopGating ==
  lastLoop # NoLoop =>
    /\ lastLoop.elapsed < READ_INTERVAL_MS =>
         /\ ~lastLoop.emitted
         /\ lastReadMillis = lastLoop.prevLast
         /\ ledState = lastLoop.prevLed
         /\ serialLines = lastLoop.prevLines
    /\ lastLoop.emitted =>
         /\ lastLoop.elapsed >= READ_INTERVAL_MS
         /\ serialLines = lastLoop.prevLines + 1
         /\ lastReadMillis = lastLoop.now
         /\ sinceEmit = 0

\* after a gap of several intervals one sample was emitted, and the call
\* that followed within the interval did nothing
C15_Witness ==
  /\ lastLoop # NoLoop
  /\ ~lastLoop.emitted
  /\ lastLoop.elapsed < READ_INTERVAL_MS
  /\ serialLines = 2
  /\ Elapsed(lastReadMillis, 0) > 3 * READ_INTERVAL_MS

\* C16: a call of loop() that emits polls channels 0..3 once each in index
\* order, writes one line holding NUM_CHANNELS readings, the i-th being the
\* reading of channel i, and toggles the LED exactly once.
C16_OneSamplePerTick ==
  (lastLoop # NoLoop /\ lastLoop.emitted) =>
    /\ lastLoop.polled = [i \in ChannelIds |-> i]
    /\ Len(lastLoop.sample) = NUM_CHANNELS
    /\ \A i \in ChannelIds :
         lastLoop.sample[i] =
           Coerce(ReadWeight(scale[i], i \in lastLoop.ready,
                             lastLoop.raw[i]).weight)
    /\ serialLines = lastLoop.prevLines + 1
    /\ lastLoop.ledWrites = 1
    /\ ledState = ~lastLoop.prevLed

\* a sample of four different readings was emitted
C16_Witness ==
  /\ lastLoop # NoLoop
  /\ lastLoop.emitted
  /\ Len(lastLoop.sample) = NUM_CHANNELS
  /\ \A i, j \in ChannelIds :
       i # j => lastLoop.sample[i] # lastLoop.sample[j]

C18_ReadingsNonNegative ==
  (lastLoop # NoLoop /\ lastLoop.emitted) =>
    \A i \in 1 .. Len(lastLoop.sample) : lastLoop.sample[i].v >= 0

\* C21: every bag-button click sets the test-mode latch, fires an event for
\* its bucket, does not raise displayed above MAX_WATER_POINTS, and leaves
\* the target of its bucket at 0.
C21_ClickAlwaysFires ==
  \A c \in calls :
    c.src = "click" =>
      /\ testMode
      /\ c.fired
      /\ displayValues[c.key] > MAX_WATER_POINTS * Scale
           => displayValues[c.key] = c.prevDisplayed
      /\ lastValues[c.key] = 0

\* C21 as amended: every bag-button click sets the test-mode latch, does not
\* raise displayed above MAX_WATER_POINTS and leaves the target of its bucket
\* at 0; it fires an event exactly when min(MAX_WATER_POINTS, displayed +
\* increment) - target >= SOUND_THRESHOLD, which is the case whenever the
\* target was at most MAX_WATER_POINTS - SOUND_THRESHOLD.
C21_ClickFiresBelowCap ==
  \A c \in calls :
    c.src = "click" =>
      /\ testMode
      /\ c.value \in { Min(MAX_WATER_POINTS * Scale, c.prevDisplayed + z * Scale) :
                         z \in {SMALL_BAG_POINTS, LARGE_BAG_POINTS} }
      /\ c.fired <=> (c.value - c.prevTarget >= SOUND_THRESHOLD * Scale)
      /\ c.prevTarget <= (MAX_WATER_POINTS - SOUND_THRESHOLD) * Scale => c.fired
      /\ displayValues[c.key] > MAX_WATER_POINTS * Scale
           => displayValues[c.key] = c.prevDisplayed
      /\ lastValues[c.key] = 0

\* a click on a bucket whose target was within SOUND_THRESHOLD of
\* MAX_WATER_POINTS: the value was capped and no event fired
C21_Witness ==
  \E c \in calls :
    /\ c.src = "click"
    /\ c.prevTarget > (MAX_WATER_POINTS - SOUND_THRESHOLD) * Scale
    /\ c.prevTarget <= MAX_WATER_POINTS * Scale
    /\ c.value = MAX_WATER_POINTS * Scale
    /\ ~c.fired
    /\ testMode

\* C22: responses are applied in the order their polls were issued: the
\* response of a poll is never applied after the response of a poll that
\* was issued later.
C22_ResponsesInOrder == [][applied' >= applied]_vars

\* C23: in every call of loop() that comes less than MillisMod milliseconds
\* after lastReadMillis was set, now - lastReadMillis in the counter's
\* unsigned arithmetic equals the true elapsed time, also when millis() has
\* wrapped in between, so the call emits exactly when at least
\* READ_INTERVAL_MS have elapsed.
C23_GateAcrossWrap ==
  (lastLoop # NoLoop /\ lastLoop.elapsed < MillisMod) =>
    /\ Elapsed(lastLoop.now, lastLoop.prevLast) = lastLoop.elapsed
    /\ lastLoop.emitted <=> (lastLoop.elapsed >= READ_INTERVAL_MS)

\* millis() wrapped between two samples: the second was emitted one and a
\* half intervals after the first, with now < lastReadMillis
C23_Witness ==
  /\ lastLoop # NoLoop
  /\ lastLoop.now < lastLoop.prevLast
  /\ lastLoop.emitted
  /\ lastLoop.elapsed = READ_INTERVAL_MS + READ_INTERVAL_MS \div 2
  /\ serialLines = 2

====
